---- MODULE Spec2Model ----
(***************************************************************************)
(* GDG Study Jam leaderboard.  The repository holds the dashboard twice:   *)
(*   src/app.py                                  (single-query version)    *)
(*   src/GDG-Study-Jam-Leaderboard-main/app.py   (earlier version, one     *)
(*                                                query per lab)           *)
(* Both serve GET /api/home-data and GET /api/progress-data from the       *)
(* "participants" table of the external store.  Definitions of the first   *)
(* file keep its names; definitions of the second are prefixed Legacy.     *)
(*                                                                         *)
(* A lab is identified by its position in LABS (1..NumLabs); a dict keyed  *)
(* by lab name is a function on 1..NumLabs, iterated in catalog order as   *)
(* Python dicts iterate in insertion order.  A Python string is a sequence *)
(* of one-character strings.  Python floats are modelled by exact          *)
(* rationals num/den; round() is Python 3's round-half-to-even.  For the   *)
(* tables of this model the double-precision results round to the same     *)
(* integers as the exact ones.                                             *)
(***************************************************************************)
EXTENDS Integers, Sequences, FiniteSets, TLC

VARIABLES
    store,             \* rows of the "participants" table, in the order select("*") returns them
    writes,            \* number of out-of-band edits of the table so far
    pc,                \* position of the request being served
    handler,           \* which view function serves it
    raw,               \* rows returned by the first store read of the request
    fetch_ok,          \* FALSE when a store read of the request raised
    participant_data,  \* the ranked summaries held by the view function
    lab_counts,        \* lab -> completions held by the view function
    lab_idx,           \* next lab of the loop in labs_completion_rate
    reads,             \* store reads performed by the request
    response           \* the response sent

vars == <<store, writes, pc, handler, raw, fetch_ok, participant_data,
          lab_counts, lab_idx, reads, response>>

-----------------------------------------------------------------------------
(* Bounds of the model *)

MaxRows == 3
MaxWrites == 1

-----------------------------------------------------------------------------
(* Program constants *)

NumLabs == 19
LegacyLabsPerParticipant == 20
TopBadges == 6

LABS == 1 .. NumLabs

NA == <<"N", "/", "A">>

-----------------------------------------------------------------------------
(* Input rows *)

\* the participants: "bo", "ada k", " cy  d ", "" and "di", each with an address
NameBo == <<"b", "o">>
NameAda == <<"a", "d", "a", " ", "k">>
NameCy == <<" ", "c", "y", " ", " ", "d", " ">>
NameDi == <<"d", "i">>
Names == <<NameBo, NameAda, NameCy, <<>>, NameDi>>
Emails == <<"bo@example.org", "ada@example.org", "cy@example.org", "x@example.org",
            "di@example.org">>

\* the sets of labs a row may mark "Yes"
LabSets == { {}, 3 .. 12, LABS }

\* a row has every column of the table, so row.get(...) never takes a default
RowOf(k, done) ==
    [name |-> Names[k], email |-> Emails[k],
     labs |-> [l \in LABS |-> IF l \in done THEN "Yes" ELSE "No"]]

\* the tables of n rows: participant k in row k, with any of the lab sets
RECURSIVE TablesOfLen(_)
TablesOfLen(n) ==
    IF n = 0 THEN { <<>> }
    ELSE { Append(s, RowOf(n, d)) : s \in TablesOfLen(n - 1), d \in LabSets }

Tables == UNION { TablesOfLen(n) : n \in 0 .. MaxRows }

-----------------------------------------------------------------------------
(* Python built-ins *)

Reverse(s) == [i \in 1 .. Len(s) |-> s[Len(s) + 1 - i]]

\* insert a <<key, item>> pair after every pair whose key is not greater
InsertAsc(sorted, x) ==
    LET p == Cardinality({ i \in 1 .. Len(sorted) : sorted[i][1] <= x[1] })
    IN  SubSeq(sorted, 1, p) \o <<x>> \o SubSeq(sorted, p + 1, Len(sorted))

RECURSIVE InsertionSortAsc(_)
InsertionSortAsc(s) ==
    IF s = <<>> THEN <<>>
    ELSE InsertAsc(InsertionSortAsc(SubSeq(s, 1, Len(s) - 1)), s[Len(s)])

\* a reverse sort that forgets to reverse the list first: ties come out reversed
ListSortReverseUnstable(pairs) == Reverse(InsertionSortAsc(pairs))

\* list.sort(key=..., reverse=True) on the <<key, item>> pairs: CPython reverses
\* the list, sorts it ascending and stably, and reverses it again
ListSortReverse(pairs) == Reverse(InsertionSortAsc(Reverse(pairs)))

Items(s) == [i \in 1 .. Len(s) |-> s[i][2]]

\* round(num / den): to the nearest integer, a tie to the even one
Round(num, den) ==
    LET q == num \div den
        r == num % den
    IN  IF 2 * r < den THEN q
        ELSE IF 2 * r > den THEN q + 1
        ELSE IF q % 2 = 0 THEN q ELSE q + 1

Upper(c) ==
    CASE c = "a" -> "A"
      [] c = "b" -> "B"
      [] c = "c" -> "C"
      [] c = "d" -> "D"
      [] c = "i" -> "I"
      [] c = "k" -> "K"
      [] c = "o" -> "O"
      [] c = "y" -> "Y"
      [] OTHER -> c

\* str.split(): the maximal runs of non-blank characters
RECURSIVE Split(_)
Split(s) ==
    IF s = <<>> THEN <<>>
    ELSE IF s[1] = " " THEN Split(Tail(s))
    ELSE LET n == CHOOSE i \in 1 .. Len(s) :
                    /\ \A j \in 1 .. i : s[j] # " "
                    /\ (i = Len(s) \/ s[i + 1] = " ")
         IN  <<SubSeq(s, 1, n)>> \o Split(SubSeq(s, n + 1, Len(s)))

RECURSIVE SumSeq(_)
SumSeq(s) == IF s = <<>> THEN 0 ELSE s[1] + SumSeq(Tail(s))

-----------------------------------------------------------------------------
(* src/app.py *)

get_initials(name) ==
    LET parts == Split(name)
    IN  IF Len(parts) > 1 THEN <<Upper(parts[1][1]), Upper(parts[2][1])>>
        ELSE IF Len(parts) > 0 THEN <<Upper(parts[1][1])>>
        ELSE <<>>

ZeroCounts == [l \in LABS |-> 0]

\* the labs of one row marked "Yes", in catalog order
CompletedLabsList(row) ==
    LET F[l \in 0 .. NumLabs] ==
            IF l = 0 THEN <<>>
            ELSE IF row.labs[l] = "Yes" THEN Append(F[l - 1], l) ELSE F[l - 1]
    IN  F[NumLabs]

\* the loop over the rows: the summaries before sorting
ProcessedParticipants(rows) ==
    [i \in 1 .. Len(rows) |->
        [name |-> rows[i].name,
         email |-> rows[i].email,
         completed_labs |-> Len(CompletedLabsList(rows[i])),
         name_of_completed_labs |-> CompletedLabsList(rows[i])]]

\* the loop over the rows: lab_completion_counts[lab] += 1 per "Yes"
RECURSIVE LabCompletionCounts(_)
LabCompletionCounts(rows) ==
    IF rows = <<>> THEN ZeroCounts
    ELSE LET before == LabCompletionCounts(SubSeq(rows, 1, Len(rows) - 1))
             row == rows[Len(rows)]
         IN  [l \in LABS |-> IF row.labs[l] = "Yes" THEN before[l] + 1 ELSE before[l]]

SortByCompletedLabs(ps) ==
    Items(ListSortReverse([i \in 1 .. Len(ps) |-> <<ps[i].completed_labs, ps[i]>>]))

\* int(...) in place of round(...)
SummaryPercentageTruncated(completed) == (completed * 100) \div NumLabs

SummaryPercentage(completed) == Round(completed * 100, NumLabs)

\* competition ranking: participants with equal counts share a rank
FinalParticipantDataSharedRanks(sorted) ==
    [i \in 1 .. Len(sorted) |->
        [name |-> sorted[i].name,
         email |-> sorted[i].email,
         completed_labs |-> sorted[i].completed_labs,
         name_of_completed_labs |-> sorted[i].name_of_completed_labs,
         rank |-> 1 + Cardinality({ j \in 1 .. Len(sorted) :
                                      sorted[j].completed_labs > sorted[i].completed_labs }),
         initials |-> get_initials(sorted[i].name),
         badge_count |-> sorted[i].completed_labs,
         completion_percentage |-> SummaryPercentage(sorted[i].completed_labs)]]

FinalParticipantData(sorted) ==
    [i \in 1 .. Len(sorted) |->
        [name |-> sorted[i].name,
         email |-> sorted[i].email,
         completed_labs |-> sorted[i].completed_labs,
         name_of_completed_labs |-> sorted[i].name_of_completed_labs,
         rank |-> i,
         initials |-> get_initials(sorted[i].name),
         badge_count |-> sorted[i].completed_labs,
         completion_percentage |-> SummaryPercentage(sorted[i].completed_labs)]]

\* get_processed_participant_data when the store read returned rows
ProcessedData(rows) ==
    FinalParticipantData(SortByCompletedLabs(ProcessedParticipants(rows)))

CompletedOf(pd) == [i \in 1 .. Len(pd) |-> pd[i].completed_labs]

NASentinel == [name |-> NA, initials |-> NA, badges |-> 0]

\* the first summary whatever its count
TopPerformerUnguarded(pd) ==
    [name |-> pd[1].name, initials |-> pd[1].initials, badges |-> pd[1].completed_labs]

TopPerformer(pd) ==
    IF pd[1].completed_labs > 0
    THEN [name |-> pd[1].name, initials |-> pd[1].initials, badges |-> pd[1].completed_labs]
    ELSE NASentinel

\* sorted(...) without reverse=True: the six least completed labs
BadgePopularityAscending(counts) ==
    LET sorted == Items(InsertionSortAsc([l \in LABS |-> <<counts[l], <<l, counts[l]>>>>]))
    IN  SubSeq(sorted, 1, IF Len(sorted) < TopBadges THEN Len(sorted) ELSE TopBadges)

\* sorted(counts.items(), key=lambda item: item[1], reverse=True)[:6]
BadgePopularity(counts) ==
    LET sorted == Items(ListSortReverse([l \in LABS |-> <<counts[l], <<l, counts[l]>>>>]))
    IN  SubSeq(sorted, 1, IF Len(sorted) < TopBadges THEN Len(sorted) ELSE TopBadges)

FullyCompleted(pd) == Cardinality({ i \in 1 .. Len(pd) : pd[i].completed_labs = NumLabs })

CompletionPercentage(pd) == Round(FullyCompleted(pd) * 100, Len(pd))

\* integer division in place of round(total / n)
AverageProgressTruncated(pd) == SumSeq(CompletedOf(pd)) \div Len(pd)

AverageProgress(pd) == Round(SumSeq(CompletedOf(pd)), Len(pd))

HomePayload(pd, counts) ==
    IF Len(pd) = 0
    THEN [status |-> 200, kind |-> "home",
          total_participants |-> 0,
          completion_percentage |-> 0,
          average_progress |-> 0,
          top_performer |-> NASentinel,
          badge_completion_rate |-> counts,
          badge_popularity |-> <<>>]
    ELSE [status |-> 200, kind |-> "home",
          total_participants |-> Len(pd),
          completion_percentage |-> CompletionPercentage(pd),
          average_progress |-> AverageProgress(pd),
          top_performer |-> TopPerformer(pd),
          badge_completion_rate |-> counts,
          badge_popularity |-> BadgePopularity(counts)]

ProgressPayload(pd) ==
    [status |-> 200, kind |-> "progress", labs |-> LABS, participants |-> pd]

NoResponse == [status |-> 0, kind |-> "none"]
ServerError == [status |-> 500, kind |-> "error"]

-----------------------------------------------------------------------------
(* src/GDG-Study-Jam-Leaderboard-main/app.py *)

\* the loop over the rows of get_participant_data
LegacyRankingList(rows) ==
    [i \in 1 .. Len(rows) |->
        [name |-> rows[i].name,
         email |-> rows[i].email,
         completed |-> Cardinality({ l \in LABS : rows[i].labs[l] = "Yes" }),
         name_of_lab |-> CompletedLabsList(rows[i])]]

LegacySortByCompleted(rl) ==
    Items(ListSortReverse([i \in 1 .. Len(rl) |-> <<rl[i].completed, rl[i]>>]))

LegacyRanked(sorted) ==
    [i \in 1 .. Len(sorted) |->
        [rank |-> i,
         name |-> sorted[i].name,
         initials |-> get_initials(sorted[i].name),
         completed_labs |-> sorted[i].completed,
         name_of_completed_labs |-> sorted[i].name_of_lab]]

LegacyParticipantData(rows) == LegacyRanked(LegacySortByCompleted(LegacyRankingList(rows)))

\* select("*", count="exact").eq(lab, "Yes"): the number of rows marked "Yes"
LegacyLabCount(table, lab) ==
    Cardinality({ i \in 1 .. Len(table) : table[i].labs[lab] = "Yes" })

LegacyCompletionPercentage(pd) ==
    IF Len(pd) > 0
    THEN Round(SumSeq(CompletedOf(pd)) * 100, LegacyLabsPerParticipant * Len(pd))
    ELSE 0

LegacyAverageProgress(pd) ==
    IF Len(pd) > 0 THEN Round(SumSeq(CompletedOf(pd)), Len(pd)) ELSE 0

LegacyTopPerformer(pd) ==
    LET hits == { i \in 1 .. Len(pd) : pd[i].rank = 1 /\ pd[i].completed_labs > 0 }
    IN  IF hits # {}
        THEN LET i == CHOOSE k \in hits : \A m \in hits : k <= m
             IN  [name |-> pd[i].name, initials |-> pd[i].initials,
                  badges |-> pd[i].completed_labs]
        ELSE NASentinel

\* badge_popularity is the expression of src/app.py, line for line
LegacyHomePayload(pd, counts) ==
    [status |-> 200, kind |-> "home",
     total_participants |-> Len(pd),
     completion_percentage |-> LegacyCompletionPercentage(pd),
     average_progress |-> LegacyAverageProgress(pd),
     top_performer |-> LegacyTopPerformer(pd),
     badge_completion_rate |-> counts,
     badge_popularity |-> BadgePopularity(counts)]

LegacyProgressParticipants(pd) ==
    [i \in 1 .. Len(pd) |->
        [rank |-> pd[i].rank,
         name |-> pd[i].name,
         initials |-> pd[i].initials,
         completed_labs |-> pd[i].completed_labs,
         name_of_completed_labs |-> pd[i].name_of_completed_labs,
         badge_count |-> pd[i].completed_labs,
         completion_percentage |-> SummaryPercentage(pd[i].completed_labs)]]

LegacyProgressPayload(pd) ==
    [status |-> 200, kind |-> "progress", labs |-> LABS,
     participants |-> LegacyProgressParticipants(pd)]

-----------------------------------------------------------------------------
(* The state machine *)

Init ==
    /\ store \in Tables
    /\ writes = 0
    /\ pc = "idle"
    /\ handler = "none"
    /\ raw = <<>>
    /\ fetch_ok = TRUE
    /\ participant_data = <<>>
    /\ lab_counts = ZeroCounts
    /\ lab_idx = 1
    /\ reads = 0
    /\ response = NoResponse

request_vars == <<pc, handler, raw, fetch_ok, participant_data, lab_counts,
                  lab_idx, reads, response>>

(* Out-of-band edits of the table; the service has no write path *)

InsertRow ==
    /\ writes < MaxWrites
    /\ Len(store) < MaxRows
    /\ LET used == { store[i].name : i \in 1 .. Len(store) }
           k == CHOOSE n \in 1 .. Len(Names) :
                    /\ Names[n] \notin used
                    /\ \A m \in 1 .. n - 1 : Names[m] \in used
       IN  \E d \in LabSets : store' = Append(store, RowOf(k, d))
    /\ writes' = writes + 1
    /\ UNCHANGED request_vars

UpdateRow ==
    /\ writes < MaxWrites
    /\ \E i \in 1 .. Len(store), d \in LabSets :
          LET labs == [l \in LABS |-> IF l \in d THEN "Yes" ELSE "No"]
          IN  /\ store[i].labs # labs
              /\ store' = [store EXCEPT ![i].labs = labs]
    /\ writes' = writes + 1
    /\ UNCHANGED request_vars

DeleteRow ==
    /\ writes < MaxWrites
    /\ \E i \in 1 .. Len(store) :
          store' = SubSeq(store, 1, i - 1) \o SubSeq(store, i + 1, Len(store))
    /\ writes' = writes + 1
    /\ UNCHANGED request_vars

(* src/app.py: get_processed_participant_data, called once by either view *)

get_processed_participant_data(h) ==
    /\ pc = "idle"
    /\ handler' = h
    /\ reads' = 1
    /\ \/ /\ fetch_ok' = TRUE
          /\ raw' = store
          /\ participant_data' = ProcessedData(store)
          /\ lab_counts' = LabCompletionCounts(store)
       \/ /\ fetch_ok' = FALSE
          /\ raw' = <<>>
          /\ participant_data' = <<>>
          /\ lab_counts' = ZeroCounts
    /\ pc' = "fetched"
    /\ UNCHANGED <<store, writes, lab_idx, response>>

GetStatsFetch == get_processed_participant_data("get_stats")

get_stats ==
    /\ pc = "fetched"
    /\ handler = "get_stats"
    /\ response' = HomePayload(participant_data, lab_counts)
    /\ pc' = "done"
    /\ UNCHANGED <<store, writes, handler, raw, fetch_ok, participant_data,
                   lab_counts, lab_idx, reads>>

GetProgressDataFetch == get_processed_participant_data("get_progress_data")

get_progress_data ==
    /\ pc = "fetched"
    /\ handler = "get_progress_data"
    /\ response' = ProgressPayload(participant_data)
    /\ pc' = "done"
    /\ UNCHANGED <<store, writes, handler, raw, fetch_ok, participant_data,
                   lab_counts, lab_idx, reads>>

(* src/GDG-Study-Jam-Leaderboard-main/app.py: a store error is not caught and *)
(* ends the request with the framework's error response                      *)

get_participant_data(h) ==
    /\ pc = "idle"
    /\ handler' = h
    /\ reads' = 1
    /\ \/ /\ fetch_ok' = TRUE
          /\ raw' = store
          /\ participant_data' = LegacyParticipantData(store)
          /\ pc' = "fetched"
          /\ response' = response
       \/ /\ fetch_ok' = FALSE
          /\ raw' = <<>>
          /\ participant_data' = <<>>
          /\ pc' = "done"
          /\ response' = ServerError
    /\ UNCHANGED <<store, writes, lab_counts, lab_idx>>

LegacyGetStatsFetch == get_participant_data("legacy_get_stats")

\* one iteration of the loop of labs_completion_rate
labs_completion_rate ==
    /\ pc = "fetched"
    /\ handler = "legacy_get_stats"
    /\ lab_idx <= NumLabs
    /\ reads' = reads + 1
    /\ \/ /\ lab_counts' = [lab_counts EXCEPT ![lab_idx] = LegacyLabCount(store, lab_idx)]
          /\ lab_idx' = lab_idx + 1
          /\ UNCHANGED <<pc, fetch_ok, response>>
       \/ /\ fetch_ok' = FALSE
          /\ pc' = "done"
          /\ response' = ServerError
          /\ UNCHANGED <<lab_counts, lab_idx>>
    /\ UNCHANGED <<store, writes, handler, raw, participant_data>>

LegacyGetStats ==
    /\ pc = "fetched"
    /\ handler = "legacy_get_stats"
    /\ lab_idx > NumLabs
    /\ response' = LegacyHomePayload(participant_data, lab_counts)
    /\ pc' = "done"
    /\ UNCHANGED <<store, writes, handler, raw, fetch_ok, participant_data,
                   lab_counts, lab_idx, reads>>

LegacyGetProgressDataFetch == get_participant_data("legacy_get_progress_data")

LegacyGetProgressData ==
    /\ pc = "fetched"
    /\ handler = "legacy_get_progress_data"
    /\ response' = LegacyProgressPayload(participant_data)
    /\ pc' = "done"
    /\ UNCHANGED <<store, writes, handler, raw, fetch_ok, participant_data,
                   lab_counts, lab_idx, reads>>

\* the response is sent and nothing is kept for the next request
Complete ==
    /\ pc = "done"
    /\ pc' = "idle"
    /\ handler' = "none"
    /\ raw' = <<>>
    /\ fetch_ok' = TRUE
    /\ participant_data' = <<>>
    /\ lab_counts' = ZeroCounts
    /\ lab_idx' = 1
    /\ reads' = 0
    /\ response' = NoResponse
    /\ UNCHANGED <<store, writes>>

Next ==
    \/ InsertRow
    \/ UpdateRow
    \/ DeleteRow
    \/ GetStatsFetch
    \/ get_stats
    \/ GetProgressDataFetch
    \/ get_progress_data
    \/ LegacyGetProgressDataFetch
    \/ LegacyGetProgressData
    \/ Complete

Spec == Init /\ [][Next]_vars

\* the same, with the home endpoint of the earlier version, whose loop of
\* one store query per lab is interleaved with the edits of the table
NextAll ==
    \/ Next
    \/ LegacyGetStatsFetch
    \/ labs_completion_rate
    \/ LegacyGetStats

SpecAll == Init /\ [][NextAll]_vars

-----------------------------------------------------------------------------
(* Properties *)

Abs(x) == IF x < 0 THEN -x ELSE x

\* the number of labs a stored row marks "Yes", counted from the row itself
RowCompleted(row) == Cardinality({ l \in LABS : row.labs[l] = "Yes" })

RawCompleted == [i \in 1 .. Len(raw) |-> RowCompleted(raw[i])]

Fetched == pc \in {"fetched", "done"} /\ fetch_ok

RanksDense(pd, n) ==
    /\ Len(pd) = n
    /\ { pd[i].rank : i \in 1 .. n } = 1 .. n
    /\ \A i, j \in 1 .. n : i # j => pd[i].rank # pd[j].rank
    /\ \A i, j \in 1 .. n :
          pd[i].rank < pd[j].rank => pd[i].completed_labs >= pd[j].completed_labs

\* C1: for N >= 1 rows returned by the store the summaries carry exactly the
\* ranks 1..N, each once (also among equal counts), and completed_labs never
\* increases as the rank increases; in the summaries a view holds and in the
\* participants of a progress response.
C1_RanksDense ==
    /\ (Fetched /\ Len(raw) >= 1) => RanksDense(participant_data, Len(raw))
    /\ (response.kind = "progress" /\ Len(raw) >= 1) =>
          RanksDense(response.participants, Len(raw))

C1_Witness ==
    /\ pc = "done"
    /\ response.kind = "progress"
    /\ Len(response.participants) = 3
    /\ response.participants[1].completed_labs = response.participants[2].completed_labs
    /\ response.participants[2].completed_labs > response.participants[3].completed_labs
    /\ response.participants[2].rank = 2

\* where row p belongs: after the rows with more labs and after the earlier
\* rows with as many
PlaceOf(done, p) ==
    1 + Cardinality({ q \in 1 .. Len(done) : done[q] > done[p] })
      + Cardinality({ q \in 1 .. p - 1 : done[q] = done[p] })

StableOrder(pd, rows) ==
    LET done == [p \in 1 .. Len(rows) |-> RowCompleted(rows[p])]
        place == [p \in 1 .. Len(rows) |-> PlaceOf(done, p)]
    IN  /\ Len(pd) = Len(rows)
        /\ \A p \in 1 .. Len(rows) :
              /\ pd[place[p]].name = rows[p].name
              /\ pd[place[p]].completed_labs = done[p]
              /\ pd[place[p]].rank = place[p]
        /\ \A p, q \in 1 .. Len(rows) :
              (p < q /\ done[p] = done[q]) => place[p] < place[q]

\* C2: the summaries are the rows returned by the store, and of two rows with
\* equal completed_labs the one returned earlier comes earlier in the list
\* (and so has the smaller rank).
C2_StableSort ==
    /\ Fetched => StableOrder(participant_data, raw)
    /\ response.kind = "progress" => StableOrder(response.participants, raw)

C2_Witness ==
    /\ pc = "done"
    /\ response.kind = "progress"
    /\ Len(raw) = 3
    /\ RawCompleted = <<10, 10, NumLabs>>
    /\ raw[1].name = NameBo
    /\ raw[2].name = NameAda
    /\ response.participants[2].name = NameBo
    /\ response.participants[3].name = NameAda
    /\ response.participants[2].rank < response.participants[3].rank

SumCounts(counts) == SumSeq([l \in 1 .. NumLabs |-> counts[l]])

\* C3: in every result of the aggregation the per-lab counts sum to the sum of
\* completed_labs over the summaries, and the counts have an entry for every
\* catalog lab.
C3_CountsMatchSummaries ==
    LET check(counts, pd) ==
            /\ DOMAIN counts = LABS
            /\ SumCounts(counts) = SumSeq(CompletedOf(pd))
    IN  /\ (pc # "idle" /\ handler \in {"get_stats", "get_progress_data"}) =>
              check(lab_counts, participant_data)
        /\ (pc = "done" /\ response.kind = "home") =>
              check(response.badge_completion_rate, participant_data)

EmptyHomePayload ==
    [status |-> 200, kind |-> "home",
     total_participants |-> 0,
     completion_percentage |-> 0,
     average_progress |-> 0,
     top_performer |-> [name |-> NA, initials |-> NA, badges |-> 0],
     badge_completion_rate |-> [l \in LABS |-> 0],
     badge_popularity |-> <<>>]

\* C4: when the store read fails or returns no rows, the home endpoint answers
\* with status 200 and the empty payload (every lab at 0, no popularity
\* entries), and the summaries and counts it got are empty and all 0.
C4_EmptyOnFailure ==
    /\ (pc = "fetched" /\ handler = "get_stats" /\ (~fetch_ok \/ raw = <<>>)) =>
          (participant_data = <<>> /\ lab_counts = [l \in LABS |-> 0])
    /\ (pc = "done" /\ handler \in {"get_stats", "legacy_get_stats"}
            /\ (~fetch_ok \/ raw = <<>>)) =>
          response = EmptyHomePayload

FullRows == Cardinality({ i \in 1 .. Len(raw) : RowCompleted(raw[i]) = NumLabs })

\* C5: with at least one participant the completion_percentage of the home
\* response is 100 times the fraction of participants that completed the whole
\* catalog, rounded to an integer; 50 for two participants with 19 and 0 labs.
C5_FullCompletionRate ==
    (pc = "done" /\ response.kind = "home" /\ Len(raw) >= 1) =>
        /\ 2 * Abs(response.completion_percentage * Len(raw) - 100 * FullRows) <= Len(raw)
        /\ RawCompleted = <<NumLabs, 0>> => response.completion_percentage = 50

MaxCompleted == CHOOSE m \in 0 .. NumLabs :
    /\ \A i \in 1 .. Len(raw) : RowCompleted(raw[i]) <= m
    /\ (m = 0 \/ \E i \in 1 .. Len(raw) : RowCompleted(raw[i]) = m)

FirstBest == CHOOSE i \in 1 .. Len(raw) :
    /\ RowCompleted(raw[i]) = MaxCompleted
    /\ \A j \in 1 .. i - 1 : RowCompleted(raw[j]) < MaxCompleted

\* C6: top_performer of the home response is the rank-1 summary (name,
\* initials, completed_labs as badges) when that summary has completed_labs
\* > 0, and the N/A sentinel otherwise; the rank-1 summary is the first
\* returned row with the most completed labs.
C6_TopPerformer ==
    (pc = "done" /\ response.kind = "home") =>
        LET first == { i \in 1 .. Len(participant_data) : participant_data[i].rank = 1 }
        IN  /\ first # {} => first = {1}
            /\ IF first # {} /\ participant_data[1].completed_labs > 0
               THEN /\ response.top_performer =
                          [name |-> participant_data[1].name,
                           initials |-> participant_data[1].initials,
                           badges |-> participant_data[1].completed_labs]
                    /\ response.top_performer.badges = MaxCompleted
                    /\ response.top_performer.name = raw[FirstBest].name
               ELSE /\ response.top_performer = [name |-> NA, initials |-> NA, badges |-> 0]
                    /\ (raw = <<>> \/ MaxCompleted = 0)

C6_Witness ==
    /\ pc = "done"
    /\ response.kind = "home"
    /\ RawCompleted = <<0, 10, 10>>
    /\ raw[2].name = NameAda
    /\ raw[3].name = NameCy
    /\ response.top_performer = [name |-> NameAda, initials |-> <<"A", "K">>, badges |-> 10]

\* C7: badge_popularity of the home response has at most 6 entries, each a
\* lab with its count, in non-increasing order of count, no lab left out has
\* a greater count than a lab included, and labs with equal counts appear in
\* catalog order.
C7_BadgePopularity ==
    (pc = "done" /\ response.kind = "home") =>
        LET bp == response.badge_popularity
            counts == response.badge_completion_rate
            shown == { bp[i][1] : i \in 1 .. Len(bp) }
        IN  /\ Len(bp) <= 6
            /\ \A i \in 1 .. Len(bp) : bp[i][1] \in LABS /\ bp[i][2] = counts[bp[i][1]]
            /\ \A i, j \in 1 .. Len(bp) : i < j => bp[i][1] # bp[j][1]
            /\ \A i, j \in 1 .. Len(bp) : i < j => bp[i][2] >= bp[j][2]
            /\ \A l \in LABS \ shown : \A i \in 1 .. Len(bp) : counts[l] <= bp[i][2]
            /\ \A i, j \in 1 .. Len(bp) : (i < j /\ bp[i][2] = bp[j][2]) => bp[i][1] < bp[j][1]

C7_Witness ==
    /\ pc = "done"
    /\ response.kind = "home"
    /\ RawCompleted = <<10, 10, 0>>
    /\ response.badge_popularity = <<<<3, 2>>, <<4, 2>>, <<5, 2>>, <<6, 2>>, <<7, 2>>, <<8, 2>>>>
    /\ response.badge_completion_rate[9] = 2
    /\ response.badge_completion_rate[1] = 0

\* C8: a request for home or progress data reads the store exactly once, and
\* the figures of its response all come from the rows of that one read.
C8_OneReadOneSnapshot ==
    (pc = "done" /\ response.status = 200) =>
        /\ reads = 1
        /\ response.kind = "home" =>
              /\ response.total_participants = Len(raw)
              /\ response.badge_completion_rate =
                    [l \in LABS |-> Cardinality({ i \in 1 .. Len(raw) : raw[i].labs[l] = "Yes" })]
        /\ response.kind = "progress" => Len(response.participants) = Len(raw)

PercentageOK(completed, percentage) ==
    /\ completed \in 0 .. NumLabs
    /\ 2 * Abs(percentage * NumLabs - 100 * completed) <= NumLabs
    /\ completed = 0 => percentage = 0
    /\ completed = NumLabs => percentage = 100

\* C9: the completion_percentage of a summary is completed_labs / catalog
\* size * 100 rounded to the nearest integer, completed_labs is within
\* 0..catalog size, and the percentage is 0 for no labs and 100 for all.
C9_SummaryPercentage ==
    /\ (pc # "idle" /\ handler \in {"get_stats", "get_progress_data"}) =>
          \A i \in 1 .. Len(participant_data) :
              /\ PercentageOK(participant_data[i].completed_labs,
                              participant_data[i].completion_percentage)
              /\ participant_data[i].badge_count = participant_data[i].completed_labs
    /\ response.kind = "progress" =>
          \A i \in 1 .. Len(response.participants) :
              PercentageOK(response.participants[i].completed_labs,
                           response.participants[i].completion_percentage)
    /\ Fetched => \A i \in 1 .. Len(participant_data) :
                      participant_data[i].completed_labs \in 0 .. NumLabs

C9_Witness ==
    /\ pc = "done"
    /\ response.kind = "progress"
    /\ RawCompleted = <<10, 0, NumLabs>>
    /\ response.participants[1].completion_percentage = 100
    /\ response.participants[2].completion_percentage = 53
    /\ response.participants[3].completion_percentage = 0

\* C10: with at least one participant the average_progress of the home
\* response is the mean of completed_labs over the participants rounded to the
\* nearest integer.
C10_AverageProgress ==
    (pc = "done" /\ response.kind = "home" /\ Len(raw) >= 1) =>
        2 * Abs(response.average_progress * Len(raw) - SumSeq(RawCompleted)) <= Len(raw)

C10_Witness ==
    /\ pc = "done"
    /\ response.kind = "home"
    /\ RawCompleted = <<10, 0, 10>>
    /\ response.average_progress = 7

====
